---- MODULE Spec2Model ----
(***************************************************************************)
(* Model of throughput.cpp: a main thread that generates the TX waveform,  *)
(* starts a statistics thread and a transmit thread, runs the receive loop *)
(* for RUN_TIME seconds, then sets the stop flags and joins both threads.  *)
(* The vendor library calls (send, recv, issue_stream_cmd), sleep_for and  *)
(* the readings of steady_clock are environment steps: each returns one of *)
(* the values its contract allows.  Clock readings are whole seconds and   *)
(* never go back.                                                          *)
(***************************************************************************)
EXTENDS Integers, Sequences, FiniteSets, TLC

\* ---- program constants (throughput.cpp:14-20) ----
SAMPS_PER_BUFFER == 4096
RUN_TIME == 10
NUM_TX_BUFFERS == 8
\* rx_buff holds SAMPS_PER_BUFFER * 4 samples
RxBuffSize == SAMPS_PER_BUFFER * 4

\* ---- bounds of the model ----
MaxSends == 2
MaxRecvs == 2
MaxReports == 2
MaxOverrun == 1
\* bounds of the long transmit run (WrapSpec): enough data sends to go round
\* all NUM_TX_BUFFERS buffers, few receives and reports
MaxSendsWrap == 9
MaxRecvsWrap == 1
MaxReportsWrap == 1

\* values a data send of len samples may report as sent: a short count or all
SendResults(len) == {len - 1, len}
\* values recv may return for a buffer of len samples: one sample or a full buffer
RecvResults(len) == {1, len}
\* rx_metadata_t::error_code values
ERROR_CODE_NONE == "NONE"
ErrorCodes == {ERROR_CODE_NONE, "TIMEOUT", "OVERFLOW"}

NoReq == [kind |-> "none", buf |-> 0, len |-> 0, sob |-> FALSE, eob |-> FALSE]
NoReport == [rx_used |-> 0, samples |-> 0]

VARIABLES
    \* shared state
    stop_signal, tx_done, total_rx_samples, total_tx_samples,
    tx_buffs,           \* buffer index -> number of samples written by main
    rx_cmds,            \* stream commands issued on rx_stream, in order
    \* main thread
    mpc, gen_idx,
    elapsed,            \* latest reading of steady_clock::now() - start_time
    num_rx, rx_err, final_print,
    \* TX thread
    tpc, buff_idx, num_sent, md, tx_req, tx_last,
    \* stats thread
    spc,
    tx_mbps, rx_mbps,   \* each figure is kept as the counter value it was computed from
    last_report,
    \* output and history
    n_rx_err_logged, n_underflow_logged,    \* lines written to std::cerr
    n_sends, sum_sent, n_recv, sum_recv,
    n_sleeps,           \* completed sleep_for calls of the stats thread
    tx_at_done,         \* total_tx_samples at the moment tx_done was set
    sends_after_done,   \* data sends that returned after tx_done was set
    n_reports, reports_after_stop

shared == <<stop_signal, tx_done, total_rx_samples, total_tx_samples, tx_buffs, rx_cmds>>
mainv == <<mpc, gen_idx, elapsed, num_rx, rx_err, final_print>>
txv == <<tpc, buff_idx, num_sent, md, tx_req, tx_last>>
statsv == <<spc, tx_mbps, rx_mbps, last_report>>
histv == <<n_rx_err_logged, n_underflow_logged, n_sends, sum_sent, n_recv, sum_recv,
           n_sleeps, n_reports, reports_after_stop>>
donev == <<tx_at_done, sends_after_done>>
vars == <<shared, mainv, txv, statsv, histv, donev>>

\* size of tx_buffs[i]: every buffer is constructed with SAMPS_PER_BUFFER samples
BuffSize(i) == SAMPS_PER_BUFFER

Init ==
    /\ stop_signal = FALSE
    /\ tx_done = FALSE
    /\ total_rx_samples = 0
    /\ total_tx_samples = 0
    /\ tx_buffs = [i \in 0..(NUM_TX_BUFFERS - 1) |-> 0]
    /\ rx_cmds = <<>>
    /\ mpc = "gen"
    /\ gen_idx = 0
    /\ elapsed = 0
    /\ num_rx = 0
    /\ rx_err = ERROR_CODE_NONE
    /\ final_print = -1
    /\ tpc = "not_started"
    /\ buff_idx = 0
    /\ num_sent = 0
    /\ md = [start_of_burst |-> FALSE, end_of_burst |-> FALSE]
    /\ tx_req = NoReq
    /\ tx_last = NoReq
    /\ spc = "not_started"
    /\ tx_mbps = 0
    /\ rx_mbps = 0
    /\ last_report = NoReport
    /\ n_rx_err_logged = 0
    /\ n_underflow_logged = 0
    /\ n_sends = 0
    /\ sum_sent = 0
    /\ n_recv = 0
    /\ sum_recv = 0
    /\ n_sleeps = 0
    /\ tx_at_done = 0
    /\ sends_after_done = 0
    /\ n_reports = 0
    /\ reports_after_stop = 0

\* ---------------------------------------------------------------------------
\* main thread
\* ---------------------------------------------------------------------------

MainGenBuffer_short ==
    /\ mpc = "gen"
    /\ gen_idx < NUM_TX_BUFFERS
    /\ tx_buffs' = [tx_buffs EXCEPT ![gen_idx] = BuffSize(gen_idx)]
    /\ gen_idx' = gen_idx + 1
    /\ mpc' = IF gen_idx + 1 = NUM_TX_BUFFERS - 1 THEN "start_stats" ELSE "gen"
    /\ UNCHANGED <<donev, stop_signal, tx_done, total_rx_samples, total_tx_samples, rx_cmds,
                   elapsed, num_rx, rx_err, final_print, txv, statsv, histv>>

\* lines 68-78: fill one buffer of tx_buffs (the inner loop over its samples)
MainGenBuffer ==
    /\ mpc = "gen"
    /\ gen_idx < NUM_TX_BUFFERS
    /\ tx_buffs' = [tx_buffs EXCEPT ![gen_idx] = BuffSize(gen_idx)]
    /\ gen_idx' = gen_idx + 1
    /\ mpc' = IF gen_idx + 1 = NUM_TX_BUFFERS THEN "start_stats" ELSE "gen"
    /\ UNCHANGED <<donev, stop_signal, tx_done, total_rx_samples, total_tx_samples, rx_cmds,
                   elapsed, num_rx, rx_err, final_print, txv, statsv, histv>>

\* line 91: std::thread stats(stats_thread)
MainStartStats ==
    /\ mpc = "start_stats"
    /\ spc' = "s_init"
    /\ mpc' = "start_tx"
    /\ UNCHANGED <<donev, shared, gen_idx, elapsed, num_rx, rx_err, final_print, txv,
                   tx_mbps, rx_mbps, last_report, histv>>

MainStartTx_notstarted ==
    /\ mpc = "start_tx"
    /\ tx_done' = FALSE
    /\ mpc' = "rx_start"
    /\ UNCHANGED <<donev, stop_signal, total_rx_samples, total_tx_samples, tx_buffs, rx_cmds,
                   gen_idx, elapsed, num_rx, rx_err, final_print, txv, statsv, histv>>

\* lines 94-95: tx_done{false}; std::thread tx_thread(...)
MainStartTx ==
    /\ mpc = "start_tx"
    /\ tx_done' = FALSE
    /\ tpc' = "tx_init"
    /\ mpc' = "rx_start"
    /\ UNCHANGED <<donev, stop_signal, total_rx_samples, total_tx_samples, tx_buffs, rx_cmds,
                   gen_idx, elapsed, num_rx, rx_err, final_print,
                   buff_idx, num_sent, md, tx_req, tx_last, statsv, histv>>

MainRxStart_nocmd ==
    /\ mpc = "rx_start"
    /\ elapsed' = 0
    /\ mpc' = "rx_check"
    /\ UNCHANGED <<donev, shared, gen_idx, num_rx, rx_err, final_print, txv, statsv, histv>>

\* lines 122-127: issue START_CONTINUOUS, take start_time
MainRxStart ==
    /\ mpc = "rx_start"
    /\ rx_cmds' = Append(rx_cmds, "START_CONTINUOUS")
    /\ elapsed' = 0
    /\ mpc' = "rx_check"
    /\ UNCHANGED <<donev, stop_signal, tx_done, total_rx_samples, total_tx_samples, tx_buffs,
                   gen_idx, num_rx, rx_err, final_print, txv, statsv, histv>>

\* what steady_clock::now() - start_time may read when the last reading was from
ClockReadings(from) ==
    {t \in {from, RUN_TIME - 1, RUN_TIME, RUN_TIME + MaxOverrun} : t >= from}

\* lines 129-131: the loop condition
RxLoopCond(t) == t < RUN_TIME

\* lines 129-135: read the clock; entering the body calls recv (at most cap
\* receives are followed)
MainRxCheckUpTo(cap) ==
    /\ mpc = "rx_check"
    /\ \E t \in ClockReadings(elapsed) :
         /\ elapsed' = t
         /\ IF RxLoopCond(t)
              THEN /\ n_recv < cap
                   /\ mpc' = "rx_recv"
              ELSE mpc' = "set_stop"
    /\ UNCHANGED <<donev, shared, gen_idx, num_rx, rx_err, final_print,
                   txv, statsv, histv>>

MainRxCheck == MainRxCheckUpTo(MaxRecvs)

\* line 135: recv returns a sample count and an error code
MainRecvReturn ==
    /\ mpc = "rx_recv"
    /\ \E n \in RecvResults(RxBuffSize), e \in ErrorCodes :
         /\ num_rx' = n
         /\ rx_err' = e
         /\ sum_recv' = IF e = ERROR_CODE_NONE THEN sum_recv + n ELSE sum_recv
    /\ n_recv' = n_recv + 1
    /\ mpc' = "rx_handle"
    /\ UNCHANGED <<donev, shared, gen_idx, elapsed, final_print, txv, statsv,
                   n_rx_err_logged, n_underflow_logged, n_sends, sum_sent,
                   n_sleeps, n_reports, reports_after_stop>>

RxAccumulate_always(total, n, e) == total + n

\* lines 137-143: log and continue on error, else total_rx_samples += num_rx
RxAccumulate(total, n, e) == IF e # ERROR_CODE_NONE THEN total ELSE total + n

MainRxHandle ==
    /\ mpc = "rx_handle"
    /\ total_rx_samples' = RxAccumulate(total_rx_samples, num_rx, rx_err)
    /\ n_rx_err_logged' = IF rx_err # ERROR_CODE_NONE THEN n_rx_err_logged + 1
                                                      ELSE n_rx_err_logged
    /\ num_rx' = 0
    /\ rx_err' = ERROR_CODE_NONE
    /\ mpc' = "rx_check"
    /\ UNCHANGED <<donev, stop_signal, tx_done, total_tx_samples, tx_buffs, rx_cmds,
                   gen_idx, elapsed, final_print, txv, statsv,
                   n_underflow_logged, n_sends, sum_sent, n_recv, sum_recv,
                   n_sleeps, n_reports, reports_after_stop>>

MainSetStop_wrongflag ==
    /\ mpc = "set_stop"
    /\ tx_done' = TRUE
    /\ mpc' = "set_tx_done"
    /\ UNCHANGED <<donev, stop_signal, total_rx_samples, total_tx_samples, tx_buffs, rx_cmds,
                   gen_idx, elapsed, num_rx, rx_err, final_print, txv, statsv, histv>>

\* line 147: stop_signal = true
MainSetStop ==
    /\ mpc = "set_stop"
    /\ stop_signal' = TRUE
    /\ mpc' = "set_tx_done"
    /\ UNCHANGED <<donev, tx_done, total_rx_samples, total_tx_samples, tx_buffs, rx_cmds,
                   gen_idx, elapsed, num_rx, rx_err, final_print, txv, statsv, histv>>

MainSetTxDone_forgotten ==
    /\ mpc = "set_tx_done"
    /\ mpc' = "rx_stop"
    /\ UNCHANGED <<donev, shared, gen_idx, elapsed, num_rx, rx_err, final_print, txv, statsv, histv>>

\* line 148: tx_done = true
MainSetTxDone ==
    /\ mpc = "set_tx_done"
    /\ tx_done' = TRUE
    /\ tx_at_done' = total_tx_samples
    /\ mpc' = "rx_stop"
    /\ UNCHANGED <<sends_after_done, stop_signal, total_rx_samples, total_tx_samples, tx_buffs, rx_cmds,
                   gen_idx, elapsed, num_rx, rx_err, final_print, txv, statsv, histv>>

\* line 150: issue STOP_CONTINUOUS
MainRxStop ==
    /\ mpc = "rx_stop"
    /\ rx_cmds' = Append(rx_cmds, "STOP_CONTINUOUS")
    /\ mpc' = "join_tx"
    /\ UNCHANGED <<donev, stop_signal, tx_done, total_rx_samples, total_tx_samples, tx_buffs,
                   gen_idx, elapsed, num_rx, rx_err, final_print, txv, statsv, histv>>

MainJoinTx_nowait ==
    /\ mpc = "join_tx"
    /\ mpc' = "join_stats"
    /\ UNCHANGED <<donev, shared, gen_idx, elapsed, num_rx, rx_err, final_print,
                   txv, statsv, histv>>

\* line 151: tx_thread.join() returns once the TX thread has finished
MainJoinTx ==
    /\ mpc = "join_tx"
    /\ tpc = "tx_exit"
    /\ mpc' = "join_stats"
    /\ UNCHANGED <<donev, shared, gen_idx, elapsed, num_rx, rx_err, final_print,
                   txv, statsv, histv>>

\* line 152: stats.join() returns once the stats thread has finished
MainJoinStats ==
    /\ mpc = "join_stats"
    /\ spc = "s_exit"
    /\ mpc' = "print"
    /\ UNCHANGED <<donev, shared, gen_idx, elapsed, num_rx, rx_err, final_print,
                   txv, statsv, histv>>

MainPrint_wrongcounter ==
    /\ mpc = "print"
    /\ final_print' = total_tx_samples
    /\ mpc' = "done"
    /\ UNCHANGED <<donev, shared, gen_idx, elapsed, num_rx, rx_err, txv, statsv, histv>>

\* line 154: print "Test completed. Final RX samples: " << total_rx_samples
MainPrint ==
    /\ mpc = "print"
    /\ final_print' = total_rx_samples
    /\ mpc' = "done"
    /\ UNCHANGED <<donev, shared, gen_idx, elapsed, num_rx, rx_err, txv, statsv, histv>>

MainNext ==
    \/ MainGenBuffer
    \/ MainStartStats
    \/ MainStartTx
    \/ MainRxStart
    \/ MainRxCheck
    \/ MainRecvReturn
    \/ MainRxHandle
    \/ MainSetStop
    \/ MainSetTxDone
    \/ MainRxStop
    \/ MainJoinTx
    \/ MainJoinStats
    \/ MainPrint

\* ---------------------------------------------------------------------------
\* TX thread (the lambda of lines 95-119)
\* ---------------------------------------------------------------------------

\* lines 97-103: metadata and locals
TxInit ==
    /\ tpc = "tx_init"
    /\ md' = [start_of_burst |-> TRUE, end_of_burst |-> FALSE]
    /\ buff_idx' = 0
    /\ num_sent' = 0
    /\ tpc' = "tx_check"
    /\ UNCHANGED <<donev, shared, mainv, tx_req, tx_last, statsv, histv>>

\* lines 106-107: the arguments of the data send: buff.data(), buff.size(), md
DataReq(idx, m) ==
    [kind |-> "data", buf |-> idx, len |-> BuffSize(idx),
     sob |-> m.start_of_burst, eob |-> m.end_of_burst]

\* line 105: while (!tx_done); on entry the body calls send, on exit line 118
\* (at most cap data sends are followed)
TxCheckUpTo(cap) ==
    /\ tpc = "tx_check"
    /\ IF ~tx_done
         THEN /\ n_sends < cap
              /\ tx_req' = DataReq(buff_idx, md)
              /\ tpc' = "tx_send"
              /\ md' = md
         ELSE /\ md' = [md EXCEPT !.end_of_burst = TRUE]
              /\ tx_req' = NoReq
              /\ tpc' = "tx_final"
    /\ UNCHANGED <<donev, shared, mainv, buff_idx, num_sent, tx_last, statsv, histv>>

TxCheck == TxCheckUpTo(MaxSends)

\* lines 107-111: send returns num_sent; an underflow is logged
TxSendReturn ==
    /\ tpc = "tx_send"
    /\ \E n \in SendResults(tx_req.len) :
         /\ num_sent' = n
         /\ sum_sent' = sum_sent + n
         /\ n_underflow_logged' = IF n < tx_req.len THEN n_underflow_logged + 1
                                                    ELSE n_underflow_logged
    /\ n_sends' = n_sends + 1
    /\ sends_after_done' = IF tx_done THEN sends_after_done + 1 ELSE sends_after_done
    /\ tx_last' = tx_req
    /\ tpc' = "tx_add"
    /\ UNCHANGED <<tx_at_done, shared, mainv, buff_idx, md, tx_req, statsv,
                   n_rx_err_logged, n_recv, sum_recv, n_sleeps, n_reports, reports_after_stop>>

TxAccumulate_overwrite(total, n) == n

\* line 113: total_tx_samples += num_sent
TxAccumulate(total, n) == total + n

NextBuffIdx_nowrap(idx, n, len) == idx + 1

NextBuffIdx_retry(idx, n, len) == IF n < len THEN idx ELSE (idx + 1) % NUM_TX_BUFFERS

\* line 114: buff_idx = (buff_idx + 1) % NUM_TX_BUFFERS
NextBuffIdx(idx, n, len) == (idx + 1) % NUM_TX_BUFFERS

TxAdd_keepsob ==
    /\ tpc = "tx_add"
    /\ total_tx_samples' = TxAccumulate(total_tx_samples, num_sent)
    /\ buff_idx' = NextBuffIdx(buff_idx, num_sent, tx_req.len)
    /\ tx_req' = NoReq
    /\ num_sent' = 0
    /\ tpc' = "tx_check"
    /\ UNCHANGED <<donev, stop_signal, tx_done, total_rx_samples, tx_buffs, rx_cmds,
                   mainv, md, tx_last, statsv, histv>>

\* lines 113-115
TxAdd ==
    /\ tpc = "tx_add"
    /\ total_tx_samples' = TxAccumulate(total_tx_samples, num_sent)
    /\ buff_idx' = NextBuffIdx(buff_idx, num_sent, tx_req.len)
    /\ md' = [md EXCEPT !.start_of_burst = FALSE]
    /\ tx_req' = NoReq
    /\ num_sent' = 0
    /\ tpc' = "tx_check"
    /\ UNCHANGED <<donev, stop_signal, tx_done, total_rx_samples, tx_buffs, rx_cmds,
                   mainv, tx_last, statsv, histv>>

\* line 119: tx_stream->send("", 0, md)
TxFinalSend ==
    /\ tpc = "tx_final"
    /\ tx_last' = [kind |-> "eob", buf |-> -1, len |-> 0,
                   sob |-> md.start_of_burst, eob |-> md.end_of_burst]
    /\ tpc' = "tx_exit"
    /\ UNCHANGED <<donev, shared, mainv, buff_idx, num_sent, md, tx_req, statsv, histv>>

TxNext ==
    \/ TxInit
    \/ TxCheck
    \/ TxSendReturn
    \/ TxAdd
    \/ TxFinalSend

\* ---------------------------------------------------------------------------
\* stats thread (lines 28-46)
\* ---------------------------------------------------------------------------

\* line 30: start_time (a clock reading used only in the printed figures)
StatsInit ==
    /\ spc = "s_init"
    /\ spc' = "s_check"
    /\ UNCHANGED <<donev, shared, mainv, txv, tx_mbps, rx_mbps, last_report, histv>>

StatsCheck_nosleep ==
    /\ spc = "s_check"
    /\ IF ~stop_signal
         THEN /\ n_reports < MaxReports
              /\ spc' = "s_load_tx"
         ELSE spc' = "s_exit"
    /\ UNCHANGED <<donev, shared, mainv, txv, tx_mbps, rx_mbps, last_report, histv>>

\* lines 31-33: while (!stop_signal); on entry the body calls sleep_for(1s)
\* (at most cap reports are followed)
StatsCheckUpTo(cap) ==
    /\ spc = "s_check"
    /\ IF ~stop_signal
         THEN /\ n_reports < cap
              /\ spc' = "s_sleep"
         ELSE spc' = "s_exit"
    /\ UNCHANGED <<donev, shared, mainv, txv, tx_mbps, rx_mbps, last_report, histv>>

StatsCheck == StatsCheckUpTo(MaxReports)

\* lines 33-36: sleep_for(1s) returns; duration is read from the clock
StatsWake ==
    /\ spc = "s_sleep"
    /\ n_sleeps' = n_sleeps + 1
    /\ spc' = "s_load_tx"
    /\ UNCHANGED <<donev, shared, mainv, txv, tx_mbps, rx_mbps, last_report,
                   n_rx_err_logged, n_underflow_logged, n_sends, sum_sent,
                   n_recv, sum_recv, n_reports, reports_after_stop>>

\* lines 38-39: tx_mbps from an atomic load of total_tx_samples
StatsLoadTx ==
    /\ spc = "s_load_tx"
    /\ tx_mbps' = total_tx_samples
    /\ spc' = "s_load_rx"
    /\ UNCHANGED <<donev, shared, mainv, txv, rx_mbps, last_report, histv>>

\* lines 40-41: rx_mbps from an atomic load of total_rx_samples
StatsLoadRx ==
    /\ spc = "s_load_rx"
    /\ rx_mbps' = total_rx_samples
    /\ spc' = "s_print"
    /\ UNCHANGED <<donev, shared, mainv, txv, tx_mbps, last_report, histv>>

StatsPrint_reset ==
    /\ spc = "s_print"
    /\ last_report' = [rx_used |-> rx_mbps, samples |-> total_rx_samples]
    /\ n_reports' = n_reports + 1
    /\ reports_after_stop' = IF stop_signal THEN reports_after_stop + 1
                                            ELSE reports_after_stop
    /\ tx_mbps' = 0
    /\ rx_mbps' = 0
    /\ total_rx_samples' = 0
    /\ total_tx_samples' = 0
    /\ spc' = "s_check"
    /\ UNCHANGED <<donev, stop_signal, tx_done, tx_buffs, rx_cmds, mainv, txv,
                   n_rx_err_logged, n_underflow_logged, n_sends, sum_sent,
                   n_recv, sum_recv, n_sleeps>>

\* lines 42-44: the report line; "Samples" is a second load of total_rx_samples
StatsPrint ==
    /\ spc = "s_print"
    /\ last_report' = [rx_used |-> rx_mbps, samples |-> total_rx_samples]
    /\ n_reports' = n_reports + 1
    /\ reports_after_stop' = IF stop_signal THEN reports_after_stop + 1
                                            ELSE reports_after_stop
    /\ tx_mbps' = 0
    /\ rx_mbps' = 0
    /\ spc' = "s_check"
    /\ UNCHANGED <<donev, shared, mainv, txv,
                   n_rx_err_logged, n_underflow_logged, n_sends, sum_sent,
                   n_recv, sum_recv, n_sleeps>>

StatsNext ==
    \/ StatsInit
    \/ StatsCheck
    \/ StatsWake
    \/ StatsLoadTx
    \/ StatsLoadRx
    \/ StatsPrint

Next ==
    \/ MainNext
    \/ TxNext
    \/ StatsNext

Spec == Init /\ [][Next]_vars

\* the same program followed through a long transmit run
WrapNext ==
    \/ MainGenBuffer
    \/ MainStartStats
    \/ MainStartTx
    \/ MainRxStart
    \/ MainRxCheckUpTo(MaxRecvsWrap)
    \/ MainRecvReturn
    \/ MainRxHandle
    \/ MainSetStop
    \/ MainSetTxDone
    \/ MainRxStop
    \/ MainJoinTx
    \/ MainJoinStats
    \/ MainPrint
    \/ TxInit
    \/ TxCheckUpTo(MaxSendsWrap)
    \/ TxSendReturn
    \/ TxAdd
    \/ TxFinalSend
    \/ StatsInit
    \/ StatsCheckUpTo(MaxReportsWrap)
    \/ StatsWake
    \/ StatsLoadTx
    \/ StatsLoadRx
    \/ StatsPrint

WrapSpec == Init /\ [][WrapNext]_vars

\* every send and recv returns and every sleep ends: no thread stops while
\* it has a step to take
FairSpec ==
    /\ Spec
    /\ WF_vars(MainNext)
    /\ WF_vars(TxNext)
    /\ WF_vars(StatsNext)

\* ---------------------------------------------------------------------------
\* properties
\* ---------------------------------------------------------------------------

\* main thread positions at which the RX loop has not yet exited
BeforeRxExit == {"gen", "start_stats", "start_tx", "rx_start", "rx_check", "rx_recv", "rx_handle"}
\* main thread positions inside the RX loop
InRxLoop == {"rx_check", "rx_recv", "rx_handle"}
\* stats thread positions inside the loop body
InStatsBody == {"s_sleep", "s_load_tx", "s_load_rx", "s_print"}

\* C1: under weak fairness of the three threads, once main has left the RX
\* loop the TX thread leaves its loop and sends the end-of-burst packet, the
\* stats thread leaves its loop, both joins return and main reaches the final
\* print.
ShutdownTerminates ==
    (mpc = "set_stop") ~>
        (/\ mpc = "done"
         /\ final_print >= 0
         /\ tpc = "tx_exit"
         /\ spc = "s_exit"
         /\ tx_last.kind = "eob"
         /\ tx_last.eob)

ShutdownReached ==
    /\ mpc = "done"
    /\ tpc = "tx_exit"
    /\ spc = "s_exit"
    /\ tx_last.kind = "eob"
    /\ n_sends = MaxSends
    /\ n_reports > 0

\* C2: an RX error is logged, leaves total_rx_samples and both stop flags
\* unchanged whatever sample count the call returned, and takes main back to
\* the loop condition; the RX loop is left only on a clock reading of at least
\* RUN_TIME, however many errors came before.
RxErrorContinues ==
    /\ [][(mpc = "rx_handle" /\ rx_err # ERROR_CODE_NONE /\ mpc' # mpc) =>
            /\ total_rx_samples' = total_rx_samples
            /\ stop_signal' = stop_signal
            /\ tx_done' = tx_done
            /\ n_rx_err_logged' = n_rx_err_logged + 1
            /\ mpc' = "rx_check"]_vars
    /\ [][(mpc \in InRxLoop /\ mpc' \notin InRxLoop) =>
            /\ mpc = "rx_check"
            /\ elapsed' >= RUN_TIME]_vars
    /\ [](mpc \notin BeforeRxExit => elapsed >= RUN_TIME)

\* one error has been handled and a second one, with a full buffer of samples,
\* is about to be
RxErrorsHandled ==
    /\ n_rx_err_logged = 1
    /\ n_recv = 2
    /\ total_rx_samples = 0
    /\ mpc = "rx_handle"
    /\ rx_err # ERROR_CODE_NONE
    /\ num_rx = RxBuffSize
    /\ elapsed < RUN_TIME

\* C3: a TX underflow is logged; the TX thread still adds exactly num_sent to
\* total_tx_samples, moves on to the next buffer, sets no stop flag and goes
\* back to the loop condition; every data send asks for the whole current buffer.
TxUnderflowContinues ==
    /\ [][(tpc = "tx_send" /\ tpc' # tpc) =>
            n_underflow_logged' =
                IF num_sent' < tx_req.len THEN n_underflow_logged + 1
                                          ELSE n_underflow_logged]_vars
    /\ [][(tpc = "tx_add" /\ num_sent < tx_req.len /\ tpc' # tpc) =>
            /\ total_tx_samples' = total_tx_samples + num_sent
            /\ buff_idx' = (buff_idx + 1) % NUM_TX_BUFFERS
            /\ stop_signal' = stop_signal
            /\ tx_done' = tx_done
            /\ tpc' = "tx_check"]_vars
    /\ [](tpc = "tx_send" => tx_req = DataReq(n_sends % NUM_TX_BUFFERS, md))

TxSendAfterUnderflow ==
    /\ tpc = "tx_send"
    /\ n_sends = 1
    /\ n_underflow_logged = 1
    /\ total_tx_samples = SAMPS_PER_BUFFER - 1
    /\ tx_req.buf = 1

\* value returned by a send (recv) whose addition to the counter is still to come
PendingTx == IF tpc = "tx_add" THEN num_sent ELSE 0
PendingRx == IF mpc = "rx_handle" /\ rx_err = ERROR_CODE_NONE THEN num_rx ELSE 0

\* C4 as stated: in every reachable state total_tx_samples is the sum of the
\* values returned by all completed data sends and total_rx_samples the sum of
\* the values returned by all completed error-free recvs.
CountersEqualReturnedSums ==
    /\ total_tx_samples = sum_sent
    /\ total_rx_samples = sum_recv

\* C4 (amended): each counter is the sum of the returned values whose addition
\* has been executed: it trails the sum of all returned values by exactly the
\* value of the one call that has returned and is not yet added; both counters
\* start at 0 and never decrease.
CountersAccumulate ==
    /\ [](/\ total_tx_samples + PendingTx = sum_sent
          /\ total_rx_samples + PendingRx = sum_recv)
    /\ [](mpc \in {"gen", "start_stats", "start_tx"} =>
            total_tx_samples = 0 /\ total_rx_samples = 0)
    /\ [][/\ total_tx_samples' >= total_tx_samples
          /\ total_rx_samples' >= total_rx_samples]_vars

CountersAccumulated ==
    /\ n_sends = 2
    /\ total_tx_samples = 2 * SAMPS_PER_BUFFER - 1
    /\ n_recv = 2
    /\ total_rx_samples = RxBuffSize + 1
    /\ n_reports > 0

\* C5: a TX thread step leaves total_rx_samples unchanged, a main thread step
\* leaves total_tx_samples unchanged, and a stats thread step leaves both
\* counters and both stop flags unchanged.
CountersSingleWriter ==
    [][/\ TxNext => total_rx_samples' = total_rx_samples
       /\ MainNext => total_tx_samples' = total_tx_samples
       /\ StatsNext => UNCHANGED <<total_rx_samples, total_tx_samples,
                                   stop_signal, tx_done>>]_vars

StatsReadNonZeroCounters ==
    /\ n_reports > 0
    /\ last_report.samples > 0
    /\ total_tx_samples > 0
    /\ total_rx_samples > 0
    /\ spc = "s_check"

\* C6: both stop flags are false until main has left the RX loop; each changes
\* only by a main thread step, once, from false to true; tx_done implies
\* stop_signal.
StopOnlyAfterRun ==
    /\ [](mpc \in BeforeRxExit => ~stop_signal /\ ~tx_done)
    /\ [](tx_done => stop_signal)
    /\ [][stop_signal' # stop_signal =>
            /\ ~stop_signal
            /\ mpc = "set_stop" /\ mpc' # mpc
            /\ UNCHANGED <<tpc, spc>>]_vars
    /\ [][tx_done' # tx_done =>
            /\ ~tx_done
            /\ mpc = "set_tx_done" /\ mpc' # mpc
            /\ UNCHANGED <<tpc, spc>>]_vars

BothFlagsSet ==
    /\ stop_signal
    /\ tx_done
    /\ mpc = "rx_stop"
    /\ elapsed >= RUN_TIME

\* C7: both threads are started before main issues the RX start command, and
\* no loop waits for another: a recv in progress can return, a stats thread in
\* its loop body can step and a send in progress can return, wherever the other
\* two threads are.
LoopsRunConcurrently ==
    /\ mpc \in ({"rx_start"} \cup InRxLoop) =>
            spc # "not_started" /\ tpc # "not_started"
    /\ mpc = "rx_recv" => ENABLED MainRecvReturn
    /\ mpc = "rx_handle" => ENABLED MainRxHandle
    /\ spc \in InStatsBody => ENABLED StatsNext
    /\ tpc \in {"tx_send", "tx_add"} => ENABLED TxNext

AllThreeInProgress ==
    /\ tpc = "tx_send"
    /\ mpc = "rx_recv"
    /\ spc = "s_print"

\* C8: every buffer of tx_buffs is fully written before the TX thread is
\* started and never written afterwards; every data send asks for exactly
\* SAMPS_PER_BUFFER samples of one of these buffers.
WaveformReadOnly ==
    /\ [](tpc # "not_started" =>
            \A i \in 0..(NUM_TX_BUFFERS - 1) : tx_buffs[i] = SAMPS_PER_BUFFER)
    /\ [][tpc # "not_started" => tx_buffs' = tx_buffs]_vars
    /\ [](tpc = "tx_send" =>
            /\ tx_req.kind = "data"
            /\ tx_req.len = SAMPS_PER_BUFFER
            /\ tx_req.buf \in 0..(NUM_TX_BUFFERS - 1)
            /\ tx_buffs[tx_req.buf] = SAMPS_PER_BUFFER)

SecondBufferSent ==
    /\ tpc = "tx_send"
    /\ tx_req.buf = 1
    /\ tx_req.len = SAMPS_PER_BUFFER

\* C9: the stats thread leaves its loop only when it reads stop_signal as
\* true, and once it has entered the loop body it produces the report; every
\* report is preceded by its own completed sleep; after stop_signal is set
\* there is at most one more report and the thread exits; no report follows
\* the join.
ReportsUntilStop ==
    /\ [][(spc = "s_check" /\ spc' = "s_exit") => stop_signal]_vars
    /\ [][(spc = "s_check" /\ spc' # spc /\ ~stop_signal) => spc' = "s_sleep"]_vars
    /\ [][n_reports' # n_reports =>
            /\ n_reports' = n_reports + 1
            /\ n_sleeps = n_reports + 1]_vars
    /\ [](n_reports <= n_sleeps)
    /\ [](reports_after_stop <= 1)
    /\ [][(mpc \in {"print", "done"}) => (n_reports' = n_reports)]_vars
    /\ \A k \in 0..(MaxReports - 1) :
            (spc = "s_sleep" /\ n_reports = k) ~> (n_reports = k + 1)
    /\ stop_signal ~> (spc = "s_exit")

ReportAfterStop ==
    /\ reports_after_stop = 1
    /\ n_reports = MaxReports
    /\ spc = "s_exit"
    /\ mpc = "done"

\* C11: buff_idx stays in 0..NUM_TX_BUFFERS-1, the k-th data send (k from 0)
\* uses buffer k mod NUM_TX_BUFFERS, and the index advances by one after every
\* data send whatever number of samples the send reported.
BuffersRoundRobin ==
    /\ [](buff_idx \in 0..(NUM_TX_BUFFERS - 1))
    /\ [](tpc = "tx_send" =>
            tx_req.kind = "data" /\ tx_req.buf = n_sends % NUM_TX_BUFFERS)
    /\ [](tx_last.kind = "data" => tx_last.buf = (n_sends - 1) % NUM_TX_BUFFERS)
    /\ [][(tpc = "tx_add" /\ tpc' # tpc) =>
            buff_idx' = (buff_idx + 1) % NUM_TX_BUFFERS]_vars

\* the ninth data send is in progress on buffer 0 again, after short sends
BufferIndexWrapped ==
    /\ tpc = "tx_send"
    /\ n_sends = NUM_TX_BUFFERS
    /\ tx_req.buf = 0
    /\ tx_last.buf = NUM_TX_BUFFERS - 1
    /\ n_underflow_logged > 0

\* C12 as stated: the end-of-burst send always carries start_of_burst = false,
\* at least one data send having been made before it.
EndOfBurstFollowsData ==
    tx_last.kind = "eob" =>
        /\ tx_last.eob
        /\ tx_last.len = 0
        /\ ~tx_last.sob
        /\ n_sends >= 1

\* C12 (amended): the first data send and no later one carries
\* start_of_burst, no data send carries end_of_burst; the one zero-length
\* end-of-burst send is the last send of the TX thread; it carries
\* start_of_burst = false exactly when a data send was made before it.
OneBurst ==
    /\ [](tpc = "tx_send" =>
            /\ tx_req.kind = "data"
            /\ tx_req.sob <=> (n_sends = 0)
            /\ ~tx_req.eob)
    /\ [](tx_last.kind = "data" =>
            /\ tx_last.sob <=> (n_sends = 1)
            /\ ~tx_last.eob)
    /\ [](tx_last.kind = "eob" <=> tpc = "tx_exit")
    /\ [](tx_last.kind = "eob" =>
            /\ tx_last.eob
            /\ tx_last.len = 0
            /\ tx_last.sob <=> (n_sends = 0))
    /\ [][tx_last.kind = "eob" =>
            (tx_last' = tx_last /\ n_sends' = n_sends /\ tpc' = tpc)]_vars

BurstClosedAfterData ==
    /\ tx_last.kind = "eob"
    /\ tx_last.eob
    /\ ~tx_last.sob
    /\ n_sends = MaxSends
    /\ tpc = "tx_exit"

\* C13: after tx_done is set at most one more data send returns, the TX
\* thread's next loop check leads to the end-of-burst send, total_tx_samples
\* grows by at most SAMPS_PER_BUFFER beyond its value at that moment, and it no
\* longer changes once the TX thread has been joined.
AtMostOneSendAfterDone ==
    /\ [](sends_after_done <= 1)
    /\ [](tx_done =>
            /\ total_tx_samples >= tx_at_done
            /\ total_tx_samples - tx_at_done <= SAMPS_PER_BUFFER)
    /\ [][(tx_done /\ tpc = "tx_check" /\ tpc' # tpc) => tpc' = "tx_final"]_vars
    /\ [][(mpc \in {"join_stats", "print", "done"}) =>
            (total_tx_samples' = total_tx_samples /\ n_sends' = n_sends)]_vars

SendReturnedAfterDone ==
    /\ tx_done
    /\ sends_after_done = 1
    /\ total_tx_samples = tx_at_done + SAMPS_PER_BUFFER
    /\ tpc = "tx_exit"
    /\ mpc = "done"

\* C14: START_CONTINUOUS is issued once, before the first recv;
\* STOP_CONTINUOUS is issued once, after the last recv has returned and both
\* stop flags are set and before main joins the threads; no recv follows it.
RxCommandsBracketReceives ==
    /\ [](rx_cmds \in {<<>>, <<"START_CONTINUOUS">>,
                       <<"START_CONTINUOUS", "STOP_CONTINUOUS">>})
    /\ []((mpc = "rx_recv" \/ n_recv > 0) => Len(rx_cmds) >= 1)
    /\ [][Len(rx_cmds') = 2 /\ Len(rx_cmds) # 2 =>
            /\ stop_signal /\ tx_done
            /\ mpc = "rx_stop" /\ mpc' = "join_tx"]_vars
    /\ [](Len(rx_cmds) = 2 => mpc \in {"join_tx", "join_stats", "print", "done"})
    /\ [](mpc \in {"join_tx", "join_stats", "print", "done"} => Len(rx_cmds) = 2)
    /\ [][Len(rx_cmds) = 2 => n_recv' = n_recv]_vars

RxStoppedAfterReceives ==
    /\ rx_cmds = <<"START_CONTINUOUS", "STOP_CONTINUOUS">>
    /\ n_recv = MaxRecvs
    /\ total_rx_samples > 0
    /\ mpc = "join_tx"

\* C15: in every report the printed "Samples" value equals the
\* total_rx_samples value the RX Mbps figure of that report was computed from.
ReportIsSnapshot ==
    last_report.samples = last_report.rx_used

\* C16: the final figure is printed only after both threads have been joined
\* and equals the sum of the sample counts of all error-free recvs; the
\* "Samples" values of the reports never decrease and none exceeds the final
\* figure.
FinalFigureIsTotal ==
    /\ [][final_print' # final_print =>
            /\ mpc = "print"
            /\ tpc = "tx_exit" /\ spc = "s_exit"
            /\ final_print' = sum_recv]_vars
    /\ [](mpc = "done" =>
            /\ final_print = sum_recv
            /\ last_report.samples <= final_print)
    /\ [](mpc # "done" => final_print = -1)
    /\ [][last_report'.samples >= last_report.samples]_vars
    /\ [](last_report.samples <= sum_recv)

FinalAfterSmallerReport ==
    /\ mpc = "done"
    /\ n_reports = MaxReports
    /\ last_report.samples = 1
    /\ n_rx_err_logged = 0
    /\ final_print = RxBuffSize + 1

====
